---- MODULE Spec2Model ----
(***************************************************************************)
(* appscale.tools.admin_api.handler: Handler.from_yaml validates one       *)
(* parsed app.yaml handler section and Handler.to_api_dict serialises the  *)
(* validated Handler to the Admin API UrlMap shape.                        *)
(*                                                                         *)
(* Python values are tagged records (t: the type, s: the characters of a   *)
(* str, n: the number of an int/float/bool, d: the items of a dict), a str *)
(* is the sequence of its characters, a dict with fixed identifier keys    *)
(* (yaml_entry, the Handler's attributes, the API dict) is a TLA+ function *)
(* whose DOMAIN is the set of keys present.                                *)
(***************************************************************************)
EXTENDS Integers, Sequences, FiniteSets, TLC

VARIABLES yaml_entry, handler, raised, api_dict, pc

vars == <<yaml_entry, handler, raised, api_dict, pc>>

----------------------------------------------------------------------------
(* Bounds of the checked input space. *)

\* at most this many keys in one yaml_entry
MaxKeys == 3
\* expiration strings of up to this many characters (specification SpecExp)
MaxExpLen == 5

----------------------------------------------------------------------------
(* Python values. *)

PyNone == [t |-> "NoneType", s |-> <<>>, n |-> 0, d |-> {}]
PyStr(cs) == [t |-> "str", s |-> cs, n |-> 0, d |-> {}]
PyInt(i) == [t |-> "int", s |-> <<>>, n |-> i, d |-> {}]
PyFloat(i) == [t |-> "float", s |-> <<>>, n |-> i, d |-> {}]
PyBool(b) == [t |-> "bool", s |-> <<>>, n |-> IF b THEN 1 ELSE 0, d |-> {}]
\* items: a set of <<key, value>> pairs of scalar values
PyDict(items) == [t |-> "dict", s |-> <<>>, n |-> 0, d |-> items]

IsNumber(v) == v.t \in {"int", "float", "bool"}

\* Python's ==: numbers compare by value across int/float/bool, strings by
\* their characters, values of unrelated types are unequal.
PyEq(a, b) ==
  IF IsNumber(a) /\ IsNumber(b) THEN a.n = b.n
  ELSE IF a.t # b.t THEN FALSE
  ELSE IF a.t = "str" THEN a.s = b.s
  ELSE IF a.t = "dict" THEN a.d = b.d
  ELSE TRUE

\* `val in (a, b, ...)`
PyIn(val, tuple) == \E i \in DOMAIN tuple : PyEq(val, tuple[i])

\* isinstance(val, <type>) for the exact types the rules name
isinstance(val, type) == val.t = type

\* bool(val), as in `if self.static_dir:`
Truthy(val) ==
  IF val.t = "NoneType" THEN FALSE
  ELSE IF val.t = "str" THEN Len(val.s) > 0
  ELSE IF val.t = "dict" THEN val.d # {}
  ELSE val.n # 0

\* dict.get(key): None for a missing key
Get(dict, key) == IF key \in DOMAIN dict THEN dict[key] ELSE PyNone

----------------------------------------------------------------------------
(* String literals of the source. *)

Lit_optional == PyStr(<<"o", "p", "t", "i", "o", "n", "a", "l">>)
Lit_never == PyStr(<<"n", "e", "v", "e", "r">>)
Lit_always == PyStr(<<"a", "l", "w", "a", "y", "s">>)
Lit_required == PyStr(<<"r", "e", "q", "u", "i", "r", "e", "d">>)
Lit_admin == PyStr(<<"a", "d", "m", "i", "n">>)
Lit_redirect == PyStr(<<"r", "e", "d", "i", "r", "e", "c", "t">>)
Lit_unauthorized == PyStr(<<"u", "n", "a", "u", "t", "h", "o", "r", "i", "z", "e", "d">>)
Lit_SECURE_OPTIONAL == PyStr(<<"S", "E", "C", "U", "R", "E", "_", "O", "P", "T", "I", "O", "N", "A", "L">>)
Lit_SECURE_NEVER == PyStr(<<"S", "E", "C", "U", "R", "E", "_", "N", "E", "V", "E", "R">>)
Lit_SECURE_ALWAYS == PyStr(<<"S", "E", "C", "U", "R", "E", "_", "A", "L", "W", "A", "Y", "S">>)
Lit_LOGIN_OPTIONAL == PyStr(<<"L", "O", "G", "I", "N", "_", "O", "P", "T", "I", "O", "N", "A", "L">>)
Lit_LOGIN_REQUIRED == PyStr(<<"L", "O", "G", "I", "N", "_", "R", "E", "Q", "U", "I", "R", "E", "D">>)
Lit_LOGIN_ADMIN == PyStr(<<"L", "O", "G", "I", "N", "_", "A", "D", "M", "I", "N">>)
Lit_AUTH_FAIL_ACTION_REDIRECT == PyStr(<<"A", "U", "T", "H", "_", "F", "A", "I", "L", "_", "A", "C", "T", "I", "O", "N", "_", "R", "E", "D", "I", "R", "E", "C", "T">>)
Lit_AUTH_FAIL_ACTION_UNAUTHORIZED == PyStr(<<"A", "U", "T", "H", "_", "F", "A", "I", "L", "_", "A", "C", "T", "I", "O", "N", "_", "U", "N", "A", "U", "T", "H", "O", "R", "I", "Z", "E", "D">>)
Lit_REDIRECT_HTTP_RESPONSE_CODE_301 == PyStr(<<"R", "E", "D", "I", "R", "E", "C", "T", "_", "H", "T", "T", "P", "_", "R", "E", "S", "P", "O", "N", "S", "E", "_", "C", "O", "D", "E", "_", "3", "0", "1">>)
Lit_REDIRECT_HTTP_RESPONSE_CODE_302 == PyStr(<<"R", "E", "D", "I", "R", "E", "C", "T", "_", "H", "T", "T", "P", "_", "R", "E", "S", "P", "O", "N", "S", "E", "_", "C", "O", "D", "E", "_", "3", "0", "2">>)
Lit_REDIRECT_HTTP_RESPONSE_CODE_303 == PyStr(<<"R", "E", "D", "I", "R", "E", "C", "T", "_", "H", "T", "T", "P", "_", "R", "E", "S", "P", "O", "N", "S", "E", "_", "C", "O", "D", "E", "_", "3", "0", "3">>)
Lit_REDIRECT_HTTP_RESPONSE_CODE_307 == PyStr(<<"R", "E", "D", "I", "R", "E", "C", "T", "_", "H", "T", "T", "P", "_", "R", "E", "S", "P", "O", "N", "S", "E", "_", "C", "O", "D", "E", "_", "3", "0", "7">>)

----------------------------------------------------------------------------
(* DELTA_REGEX and EXPIRATION_RE, matched as re.match does: a set of       *)
(* positions of the subject string s is carried through the pattern, a     *)
(* position p meaning "the characters before s[p] are consumed".           *)

Digits == {"0", "1", "2", "3", "4", "5", "6", "7", "8", "9"}
\* \s
Whitespace == {" ", "\t", "\n", "\r", "\f"}
\* [DdHhMm]
DayHourMinute == {"D", "d", "H", "h", "M", "m"}
\* [sS]
Second == {"s", "S"}

\* one character of class cls
OneOf(s, P, cls) == {p + 1 : p \in {q \in P : q <= Len(s) /\ s[q] \in cls}}

\* cls*
StarOf(s, P, cls) ==
  {q \in 1..(Len(s) + 1) : \E p \in P : p <= q /\ \A i \in p..(q - 1) : s[i] \in cls}

\* cls+
PlusOf(s, P, cls) == StarOf(s, OneOf(s, P, cls), cls)

\* ([0-9]+)([DdHhMm]|[sS]?)
DELTA_REGEX(s, P) ==
  LET number == PlusOf(s, P, Digits)
  IN  OneOf(s, number, DayHourMinute) \cup OneOf(s, number, Second) \cup number

\* a faulty separator: \s* where the pattern has \s+
DeltaSeparator_Optional(s, P) == StarOf(s, P, Whitespace)

\* the \s+ in front of every further delta
DeltaSeparator(s, P) == PlusOf(s, P, Whitespace)

\* (\s+DELTA)*
RECURSIVE MoreDeltas(_, _)
MoreDeltas(s, P) ==
  LET next == P \cup DELTA_REGEX(s, DeltaSeparator(s, P))
  IN  IF next = P THEN P ELSE MoreDeltas(s, next)

\* re.compile(EXPIRATION_RE).match(s) is not None, for a str s:
\* ^\s*(DELTA)(\s+DELTA)*\s*$ ; $ is the end or just before a final newline
EXPIRATION_RE(s) ==
  LET lead  == StarOf(s, {1}, Whitespace)
      first == DELTA_REGEX(s, lead)
      more  == MoreDeltas(s, first)
      trail == StarOf(s, more, Whitespace)
  IN  \E q \in trail : q = Len(s) + 1 \/ (q = Len(s) /\ s[q] = "\n")

----------------------------------------------------------------------------
(* The class tables. *)

Attributes ==
  {"application_readable", "auth_fail_action", "expiration", "http_headers",
   "login", "mime_type", "redirect_http_response_code", "script", "secure",
   "static_dir", "static_files", "upload", "url"}

\* FIELD_RULES.items(), in the order the dict literal is written
FIELD_ORDER ==
  <<"application_readable", "auth_fail_action", "expiration", "http_headers",
    "login", "mime_type", "redirect_http_response_code", "script", "secure",
    "static_dir", "static_files", "upload", "url">>

\* FIELD_RULES[field](val): "accept" for a true result, "reject" for a false
\* one, "TypeError" when the rule raises (Pattern.match of a non-string).
FIELD_RULES(field, val) ==
  LET verdict(b) == IF b THEN "accept" ELSE "reject"
  IN  CASE field = "application_readable" -> verdict(isinstance(val, "bool"))
        [] field = "auth_fail_action" ->
             verdict(PyIn(val, <<Lit_redirect, Lit_unauthorized>>))
        [] field = "expiration" ->
             IF isinstance(val, "str") THEN verdict(EXPIRATION_RE(val.s))
             ELSE "TypeError"
        [] field = "http_headers" -> verdict(isinstance(val, "dict"))
        [] field = "login" ->
             verdict(PyIn(val, <<Lit_optional, Lit_required, Lit_admin>>))
        [] field = "mime_type" -> verdict(isinstance(val, "str"))
        [] field = "redirect_http_response_code" ->
             verdict(PyIn(val, <<PyInt(301), PyInt(302), PyInt(303), PyInt(307)>>))
        [] field = "script" -> verdict(isinstance(val, "str"))
        [] field = "secure" ->
             verdict(PyIn(val, <<Lit_optional, Lit_never, Lit_always>>))
        [] field = "static_dir" -> verdict(isinstance(val, "str"))
        [] field = "static_files" -> verdict(isinstance(val, "str"))
        [] field = "upload" -> verdict(isinstance(val, "str"))
        [] field = "url" -> verdict(isinstance(val, "str"))

\* API_FIELDS: attribute -> API field
API_FIELDS ==
  [secure |-> "securityLevel",
   login |-> "login",
   auth_fail_action |-> "authFailAction",
   redirect_http_response_code |-> "redirectHttpResponseCode"]

\* a faulty table: 'never' given the constant of 'optional', 307 left out
API_VALUES_Slip(api_field) ==
  CASE api_field = "securityLevel" ->
         {<<Lit_optional, Lit_SECURE_OPTIONAL>>,
          <<Lit_never, Lit_SECURE_OPTIONAL>>,
          <<Lit_always, Lit_SECURE_ALWAYS>>}
    [] api_field = "login" ->
         {<<Lit_optional, Lit_LOGIN_OPTIONAL>>,
          <<Lit_required, Lit_LOGIN_REQUIRED>>,
          <<Lit_admin, Lit_LOGIN_ADMIN>>}
    [] api_field = "authFailAction" ->
         {<<Lit_redirect, Lit_AUTH_FAIL_ACTION_REDIRECT>>,
          <<Lit_unauthorized, Lit_AUTH_FAIL_ACTION_UNAUTHORIZED>>}
    [] api_field = "redirectHttpResponseCode" ->
         {<<PyInt(301), Lit_REDIRECT_HTTP_RESPONSE_CODE_301>>,
          <<PyInt(302), Lit_REDIRECT_HTTP_RESPONSE_CODE_302>>,
          <<PyInt(303), Lit_REDIRECT_HTTP_RESPONSE_CODE_303>>}

\* API_VALUES[api_field]: the <<key, value>> items of the inner dict
API_VALUES(api_field) ==
  CASE api_field = "securityLevel" ->
         {<<Lit_optional, Lit_SECURE_OPTIONAL>>,
          <<Lit_never, Lit_SECURE_NEVER>>,
          <<Lit_always, Lit_SECURE_ALWAYS>>}
    [] api_field = "login" ->
         {<<Lit_optional, Lit_LOGIN_OPTIONAL>>,
          <<Lit_required, Lit_LOGIN_REQUIRED>>,
          <<Lit_admin, Lit_LOGIN_ADMIN>>}
    [] api_field = "authFailAction" ->
         {<<Lit_redirect, Lit_AUTH_FAIL_ACTION_REDIRECT>>,
          <<Lit_unauthorized, Lit_AUTH_FAIL_ACTION_UNAUTHORIZED>>}
    [] api_field = "redirectHttpResponseCode" ->
         {<<PyInt(301), Lit_REDIRECT_HTTP_RESPONSE_CODE_301>>,
          <<PyInt(302), Lit_REDIRECT_HTTP_RESPONSE_CODE_302>>,
          <<PyInt(303), Lit_REDIRECT_HTTP_RESPONSE_CODE_303>>,
          <<PyInt(307), Lit_REDIRECT_HTTP_RESPONSE_CODE_307>>}

\* STATIC_API_FIELDS: attribute -> key of the static section
STATIC_API_FIELDS ==
  [upload |-> "uploadPathRegex",
   http_headers |-> "httpHeaders",
   mime_type |-> "mimeType",
   expiration |-> "expiration",
   application_readable |-> "applicationReadable"]

----------------------------------------------------------------------------
(* Exceptions: which one, the check that raised it, and the field and      *)
(* value its message is formatted from.                                    *)

NoException == [type |-> "none", check |-> "none", field |-> "", value |-> PyNone]

AppEngineConfigException(check, field, value) ==
  [type |-> "AppEngineConfigException", check |-> check, field |-> field,
   value |-> value]

\* raised by the call of a rule, inside the per-field loop
TypeError(field, value) ==
  [type |-> "TypeError", check |-> "invalid", field |-> field, value |-> value]

\* raised by a missing key of API_VALUES[api_field]
KeyError(field, value) ==
  [type |-> "KeyError", check |-> "lookup", field |-> field, value |-> value]

IsNone(val) == val.t = "NoneType"

----------------------------------------------------------------------------
(* Handler.__init__, Handler.static_defined, Handler.from_yaml. *)

\* Handler(url): url as given, every other attribute None
NewHandler(url) == [a \in Attributes |-> IF a = "url" THEN url ELSE PyNone]

static_defined(self) == ~IsNone(self.static_dir) \/ ~IsNone(self.static_files)

\* the keys of yaml_entry that FIELD_RULES does not hold
UnrecognizedFields(entry) == {field \in DOMAIN entry : field \notin Attributes}

\* the positions in FIELD_ORDER whose non-None value its rule does not accept
InvalidPositions(entry) ==
  {i \in DOMAIN FIELD_ORDER :
     /\ ~IsNone(Get(entry, FIELD_ORDER[i]))
     /\ FIELD_RULES(FIELD_ORDER[i], Get(entry, FIELD_ORDER[i])) # "accept"}

\* the exception of the first position of the loop that does not pass
InvalidValueError(entry) ==
  LET i == CHOOSE j \in InvalidPositions(entry) :
             \A k \in InvalidPositions(entry) : j <= k
      field == FIELD_ORDER[i]
      value == Get(entry, field)
  IN  IF FIELD_RULES(field, value) = "TypeError" THEN TypeError(field, value)
      ELSE AppEngineConfigException("invalid", field, value)

\* the loop's setattr calls: every non-None value of yaml_entry is stored
SetAttributes(self, entry) ==
  [a \in Attributes |-> IF ~IsNone(Get(entry, a)) THEN entry[a] ELSE self[a]]

\* the three checks after the loop, in their order
CrossFieldError(self) ==
  IF ~IsNone(self.script) /\ static_defined(self)
  THEN AppEngineConfigException("script_and_static", "", PyNone)
  ELSE IF IsNone(self.script) /\ ~static_defined(self)
  THEN AppEngineConfigException("no_script_no_static", "", PyNone)
  ELSE IF static_defined(self) /\ ~IsNone(self.static_dir) /\ ~IsNone(self.static_files)
  THEN AppEngineConfigException("static_dir_and_static_files", "", PyNone)
  ELSE NoException

\* a faulty order: the values are validated before the keys are recognized
from_yaml_ValuesFirst(entry) ==
  IF "url" \notin DOMAIN entry
  THEN {[raised |-> AppEngineConfigException("missing_url", "url", PyNone),
         handler |-> NewHandler(PyNone)]}
  ELSE LET created == NewHandler(entry["url"])
           filled == SetAttributes(created, entry)
       IN  IF InvalidPositions(entry) # {}
           THEN {[raised |-> InvalidValueError(entry), handler |-> created]}
           ELSE IF UnrecognizedFields(entry) # {}
           THEN {[raised |-> AppEngineConfigException("unrecognized", field, PyNone),
                  handler |-> created] : field \in UnrecognizedFields(entry)}
           ELSE {[raised |-> CrossFieldError(filled), handler |-> filled]}

\* from_yaml(yaml_entry): the set of its possible outcomes, each the raised
\* exception (NoException for a return) and the Handler built so far. The
\* first loop runs in yaml_entry's own key order, which the mapping does not
\* fix: any unrecognized key may be the one met first.
from_yaml(entry) ==
  IF "url" \notin DOMAIN entry
  THEN {[raised |-> AppEngineConfigException("missing_url", "url", PyNone),
         handler |-> NewHandler(PyNone)]}
  ELSE LET created == NewHandler(entry["url"])
           filled == SetAttributes(created, entry)
       IN  IF UnrecognizedFields(entry) # {}
           THEN {[raised |-> AppEngineConfigException("unrecognized", field, PyNone),
                  handler |-> created] : field \in UnrecognizedFields(entry)}
           ELSE IF InvalidPositions(entry) # {}
           THEN {[raised |-> InvalidValueError(entry), handler |-> created]}
           ELSE {[raised |-> CrossFieldError(filled), handler |-> filled]}

----------------------------------------------------------------------------
(* Handler.to_api_dict. *)

\* '{}'.format(val) for a str: its characters
Format(val) == IF val.t = "str" THEN val.s ELSE <<"?">>

\* the attributes of API_FIELDS that are set
SetApiAttributes(self) == {a \in DOMAIN API_FIELDS : ~IsNone(self[a])}

\* API_VALUES[api_field][value]: the values stored under a key equal to value
ApiValue(api_field, value) ==
  {item[2] : item \in {i \in API_VALUES(api_field) : PyEq(i[1], value)}}

\* the attributes whose lookup raises KeyError
MissingApiValues(self) ==
  {a \in SetApiAttributes(self) : ApiValue(API_FIELDS[a], self[a]) = {}}

\* the entries the first loop adds to the API dict
ApiFieldEntries(self) ==
  [api_field \in {API_FIELDS[a] : a \in SetApiAttributes(self)} |->
     LET a == CHOOSE b \in DOMAIN API_FIELDS : API_FIELDS[b] = api_field
     IN  CHOOSE v \in ApiValue(api_field, self[a]) : TRUE]

\* a faulty second loop: `if value:` where the code has `is not None`
StaticFieldEntries_Truthy(self) ==
  [key \in {STATIC_API_FIELDS[a] : a \in {b \in DOMAIN STATIC_API_FIELDS : Truthy(self[b])}} |->
     LET a == CHOOSE b \in DOMAIN STATIC_API_FIELDS : STATIC_API_FIELDS[b] = key
     IN  self[a]]

\* the entries the second loop stores in the static section
StaticFieldEntries(self) ==
  [key \in {STATIC_API_FIELDS[a] : a \in {b \in DOMAIN STATIC_API_FIELDS : ~IsNone(self[b])}} |->
     LET a == CHOOSE b \in DOMAIN STATIC_API_FIELDS : STATIC_API_FIELDS[b] = key
     IN  self[a]]

\* a faulty order: the generated entries stored over those of the second loop
StaticSection_GeneratedLast(self) ==
  LET base ==
        IF Truthy(self.static_dir)
        THEN [path |-> self.static_dir,
              uploadPathRegex |-> PyStr(Format(self.static_dir) \o <<"/", ".", "*">>)]
        ELSE [path |-> self.static_files]
  IN  base @@ StaticFieldEntries(self)

\* static_section: the path (and the generated upload regex) first, the
\* entries of STATIC_API_FIELDS stored over it
StaticSection(self) ==
  LET base ==
        IF Truthy(self.static_dir)
        THEN [path |-> self.static_dir,
              uploadPathRegex |-> PyStr(Format(self.static_dir) \o <<"/", ".", "*">>)]
        ELSE [path |-> self.static_files]
  IN  StaticFieldEntries(self) @@ base

\* to_api_dict(self): the raised exception (NoException for a return) and the
\* returned dict
to_api_dict(self) ==
  IF MissingApiValues(self) # {}
  THEN LET a == CHOOSE b \in MissingApiValues(self) : TRUE
       IN  [raised |-> KeyError(a, self[a]), value |-> <<>>]
  ELSE [raised |-> NoException,
        value |->
          IF static_defined(self)
          THEN ("staticFiles" :> StaticSection(self))
                 @@ ApiFieldEntries(self) @@ ("urlRegex" :> self.url)
          ELSE ("script" :> [scriptPath |-> self.script])
                 @@ ApiFieldEntries(self) @@ ("urlRegex" :> self.url)]

----------------------------------------------------------------------------
(* The handler sections the model is checked on. *)

Keys == Attributes \cup {"position", "require_matching_file"}

Str_url == PyStr(<<"/", "x">>)
Str_script == PyStr(<<"x", ".", "p", "y">>)
Str_empty == PyStr(<<>>)
Str_dir == PyStr(<<"x">>)
Str_dir_slash == PyStr(<<"x", "/">>)
Str_301 == PyStr(<<"3", "0", "1">>)
Str_file == PyStr(<<"f">>)
Str_upload == PyStr(<<"u">>)
Str_mime == PyStr(<<"m">>)
Str_header == PyStr(<<"X">>)
Str_head == PyStr(<<"h">>)

\* the values tried for each key: accepted ones, rejected ones, None
Candidates(key) ==
  CASE key = "url" -> {PyNone, Str_url, PyInt(7)}
    [] key = "script" -> {PyNone, Str_script, PyInt(7)}
    [] key = "static_dir" -> {PyNone, Str_empty, Str_dir, Str_dir_slash, PyInt(7)}
    [] key = "static_files" -> {PyNone, Str_empty, Str_file, PyInt(7)}
    [] key = "upload" -> {PyNone, Str_empty, Str_upload, PyInt(7)}
    [] key = "mime_type" -> {PyNone, Str_mime, PyInt(7)}
    [] key = "secure" -> {Lit_optional, Lit_never, Lit_always, Lit_admin, PyInt(1)}
    [] key = "login" -> {Lit_optional, Lit_required, Lit_admin, Lit_never}
    [] key = "auth_fail_action" -> {Lit_redirect, Lit_unauthorized, Lit_admin}
    [] key = "redirect_http_response_code" ->
         {PyInt(301), PyInt(302), PyInt(303), PyInt(307), PyInt(404),
          PyFloat(301), Str_301}
    [] key = "application_readable" ->
         {PyNone, PyBool(TRUE), PyBool(FALSE), PyInt(1)}
    [] key = "http_headers" ->
         {PyDict({}), PyDict({<<Str_header, Str_mime>>}),
          PyDict({<<Str_header, PyInt(1)>>}), PyDict({<<PyInt(1), Str_mime>>}),
          Str_header}
    [] key = "expiration" ->
         {PyNone, PyStr(<<"1", "d">>), PyStr(<<"1", "d", " ", "2", "h">>),
          PyStr(<<"1", "x">>), Str_empty, PyInt(30)}
    [] key = "position" -> {PyNone, Str_head}
    [] key = "require_matching_file" -> {PyBool(TRUE)}

\* a url and one of script, static_dir, static_files: what a section needs
\* for from_yaml to return
CoreKeys == {"url", "script", "static_dir", "static_files"}

CoreEntries ==
  {("url" :> Str_url) @@ ("script" :> Str_script),
   ("url" :> Str_url) @@ ("static_dir" :> Str_dir),
   ("url" :> Str_url) @@ ("static_dir" :> Str_dir_slash),
   ("url" :> Str_url) @@ ("static_dir" :> Str_empty),
   ("url" :> Str_url) @@ ("static_files" :> Str_file)}

\* the keys in the order sections are enumerated in, CoreKeys first
KeyOrder ==
  <<"url", "script", "static_dir", "static_files",
    "application_readable", "auth_fail_action", "expiration", "http_headers",
    "login", "mime_type", "redirect_http_response_code", "secure", "upload",
    "position", "require_matching_file">>

\* yaml_entry is the mapping acc, extended by at most n of the keys that
\* follow position i of KeyOrder, each with one of its candidate values
RECURSIVE IsEntryFrom(_, _, _)
IsEntryFrom(acc, i, n) ==
  \/ yaml_entry = acc
  \/ /\ n > 0
     /\ \E j \in (i + 1)..Len(KeyOrder) :
          \E v \in Candidates(KeyOrder[j]) :
            IsEntryFrom((KeyOrder[j] :> v) @@ acc, j, n - 1)

\* any MaxKeys keys, or a core with any MaxKeys further keys
IsYamlEntry ==
  \/ IsEntryFrom(<<>>, 0, MaxKeys)
  \/ \E core \in CoreEntries : IsEntryFrom(core, Cardinality(CoreKeys), MaxKeys)

\* the characters expiration strings are built from: a digit, a unit of each
\* branch, two kinds of whitespace, and a character of no class
ExpirationAlphabet == {"1", "d", "S", " ", "\n", "x"}

RECURSIVE Strings(_)
Strings(n) ==
  IF n = 0 THEN {<<>>}
  ELSE Strings(n - 1)
         \cup {Append(cs, c) : cs \in {x \in Strings(n - 1) : Len(x) = n - 1},
                               c \in ExpirationAlphabet}

\* the expiration strings the specification names
AcceptedExamples ==
  {<<"3", "0", "d">>, <<"1", "d", " ", "2", "h", " ", "3", "m">>, <<"4", "5">>,
   <<"1", "0", " ", "2", "0", "M">>}

RejectedExamples ==
  {<<"a", "b", "c">>, <<"3", "0", "x">>, <<>>, <<"1", "d", "2", "h">>}

\* a static_dir section with each expiration string
ExpirationEntries ==
  {("url" :> Str_url) @@ ("static_dir" :> Str_dir) @@ ("expiration" :> PyStr(cs)) :
     cs \in Strings(MaxExpLen) \cup AcceptedExamples \cup RejectedExamples}

----------------------------------------------------------------------------
(* The state machine: a section is parsed once (FromYaml), and the Handler *)
(* it returns is serialised (ToApiDict).                                   *)

Unparsed ==
  /\ handler = NewHandler(PyNone)
  /\ raised = NoException
  /\ api_dict = <<>>
  /\ pc = "start"

Init == IsYamlEntry /\ Unparsed

InitExp == yaml_entry \in ExpirationEntries /\ Unparsed

FromYaml ==
  /\ pc = "start"
  /\ \E outcome \in from_yaml(yaml_entry) :
       /\ raised' = outcome.raised
       /\ handler' = outcome.handler
       /\ pc' = IF outcome.raised = NoException THEN "constructed" ELSE "from_yaml_raised"
  /\ UNCHANGED <<yaml_entry, api_dict>>

ToApiDict ==
  /\ pc = "constructed"
  /\ LET result == to_api_dict(handler)
     IN  /\ raised' = result.raised
         /\ api_dict' = result.value
         /\ pc' = IF result.raised = NoException THEN "serialized" ELSE "to_api_dict_raised"
  /\ UNCHANGED <<yaml_entry, handler>>

Next == FromYaml \/ ToApiDict

Spec == Init /\ [][Next]_vars

SpecExp == InitExp /\ [][Next]_vars

----------------------------------------------------------------------------
(* Vocabulary of the properties below. *)

ConfigError == "AppEngineConfigException"

\* from_yaml has run on yaml_entry
Parsed == pc # "start"

\* from_yaml returned a Handler
Returned == pc \in {"constructed", "serialized", "to_api_dict_raised"}

\* from_yaml raised ConfigError
Rejected == pc = "from_yaml_raised" /\ raised.type = ConfigError

\* yaml_entry gives the key a non-null value
Sets(key) == ~IsNone(Get(yaml_entry, key))

HandlerSets(a) == ~IsNone(handler[a])

\* a key of yaml_entry outside the field table
UnknownKeys == DOMAIN yaml_entry \ Attributes

\* the recognized keys whose non-null value does not pass its predicate
FailingKeys ==
  {key \in DOMAIN yaml_entry \cap Attributes :
     Sets(key) /\ FIELD_RULES(key, yaml_entry[key]) # "accept"}

----------------------------------------------------------------------------
(* C1: every returned rule has exactly one of script and a static target,  *)
(* and not both static_dir and static_files; and every section that sets   *)
(* script together with static_dir or static_files, that sets neither      *)
(* script nor a static field, or that sets both static_dir and             *)
(* static_files, fails with ConfigError.                                   *)

\* the half of C1 about returned rules
C1_RuleInvariants ==
  Returned =>
    /\ HandlerSets("script") # (HandlerSets("static_dir") \/ HandlerSets("static_files"))
    /\ ~(HandlerSets("static_dir") /\ HandlerSets("static_files"))

C1_BreaksCrossField ==
  \/ Sets("script") /\ (Sets("static_dir") \/ Sets("static_files"))
  \/ ~Sets("script") /\ ~Sets("static_dir") /\ ~Sets("static_files")
  \/ Sets("static_dir") /\ Sets("static_files")

\* C1: a returned rule satisfies both cross-field invariants, and a section
\* that breaks one of them fails with ConfigError and returns no rule
C1_CrossFieldInvariants ==
  /\ C1_RuleInvariants
  /\ (Parsed /\ C1_BreaksCrossField) => Rejected

----------------------------------------------------------------------------
(* C2: the checks run in the order missing url, unrecognized field,        *)
(* per-field predicates, cross-field checks, and the first violated one is *)
(* reported.                                                               *)

\* C2: a section without url fails with the missing-url ConfigError; one
\* with url and an unrecognized key fails with the unrecognized-field
\* ConfigError for one of its unrecognized keys, whatever else it holds; a
\* failure of the per-field stage is reported only when both earlier checks
\* pass, and a cross-field failure only when every value passes too
C2_ValidationOrder ==
  Parsed =>
    IF "url" \notin DOMAIN yaml_entry
    THEN Rejected /\ raised.check = "missing_url"
    ELSE IF UnknownKeys # {}
    THEN Rejected /\ raised.check = "unrecognized" /\ raised.field \in UnknownKeys
    ELSE IF FailingKeys # {}
    THEN pc = "from_yaml_raised" /\ raised.check = "invalid"
           /\ raised.field \in FailingKeys
    ELSE \/ Returned
         \/ Rejected /\ raised.check \in {"script_and_static", "no_script_no_static",
                                           "static_dir_and_static_files"}

\* an unrecognized key is reported although a value is invalid and neither
\* script nor a static target is given
C2_Witness ==
  /\ Rejected /\ raised.check = "unrecognized"
  /\ "url" \in DOMAIN yaml_entry
  /\ FailingKeys # {}
  /\ ~Sets("script") /\ ~Sets("static_dir") /\ ~Sets("static_files")

----------------------------------------------------------------------------
(* C3: url is a required string. *)

\* C3: every returned rule has a str url (so urlRegex is a str), and a
\* section whose url is absent or is not a str, null included, is rejected
\* with ConfigError
C3_UrlIsString ==
  /\ Returned => isinstance(handler.url, "str")
  /\ pc = "serialized" => isinstance(api_dict.urlRegex, "str")
  /\ (Parsed /\ ~isinstance(Get(yaml_entry, "url"), "str")) => Rejected

----------------------------------------------------------------------------
(* C4: the path and the generated upload regex of the static section. *)

\* C4: for a returned rule with static_dir set (the empty string included)
\* staticFiles.path is static_dir and, without upload, uploadPathRegex is
\* static_dir followed by "/.*"; with static_files instead, path is
\* static_files and no uploadPathRegex is generated
C4_StaticPath ==
  pc = "serialized" =>
    /\ HandlerSets("static_dir") =>
         /\ api_dict.staticFiles.path = handler.static_dir
         /\ ~HandlerSets("upload") =>
              /\ "uploadPathRegex" \in DOMAIN api_dict.staticFiles
              /\ api_dict.staticFiles.uploadPathRegex
                   = PyStr(handler.static_dir.s \o <<"/", ".", "*">>)
    /\ (~HandlerSets("static_dir") /\ HandlerSets("static_files")) =>
         /\ api_dict.staticFiles.path = handler.static_files
         /\ ~HandlerSets("upload") =>
              "uploadPathRegex" \notin DOMAIN api_dict.staticFiles

----------------------------------------------------------------------------
(* C5: an explicit upload wins over the generated regex. *)

\* C5: for every returned static rule with upload set,
\* staticFiles.uploadPathRegex is the upload value; and a section with url,
\* static_dir and upload set, script and static_files unset, no unknown key
\* and every value passing its predicate is accepted
C5_UploadOverrides ==
  /\ (pc = "serialized" /\ (HandlerSets("static_dir") \/ HandlerSets("static_files"))
        /\ HandlerSets("upload")) =>
       api_dict.staticFiles.uploadPathRegex = handler.upload
  /\ (Parsed /\ "url" \in DOMAIN yaml_entry /\ UnknownKeys = {} /\ FailingKeys = {}
        /\ Sets("static_dir") /\ Sets("upload")
        /\ ~Sets("script") /\ ~Sets("static_files")) =>
       Returned

\* a non-empty static_dir, whose regex is generated, together with upload
C5_Witness ==
  /\ pc = "serialized"
  /\ Truthy(handler.static_dir)
  /\ HandlerSets("upload")
  /\ handler.upload # PyStr(handler.static_dir.s \o <<"/", ".", "*">>)
  /\ api_dict.staticFiles.uploadPathRegex = handler.upload

----------------------------------------------------------------------------
(* C6: the enum translation is a total, exact lookup. *)

\* the translation table of the specification: attribute, output key,
\* literal, constant
C6_Table ==
  {<<"secure", "securityLevel", Lit_optional, Lit_SECURE_OPTIONAL>>,
   <<"secure", "securityLevel", Lit_never, Lit_SECURE_NEVER>>,
   <<"secure", "securityLevel", Lit_always, Lit_SECURE_ALWAYS>>,
   <<"login", "login", Lit_optional, Lit_LOGIN_OPTIONAL>>,
   <<"login", "login", Lit_required, Lit_LOGIN_REQUIRED>>,
   <<"login", "login", Lit_admin, Lit_LOGIN_ADMIN>>,
   <<"auth_fail_action", "authFailAction", Lit_redirect, Lit_AUTH_FAIL_ACTION_REDIRECT>>,
   <<"auth_fail_action", "authFailAction", Lit_unauthorized,
     Lit_AUTH_FAIL_ACTION_UNAUTHORIZED>>,
   <<"redirect_http_response_code", "redirectHttpResponseCode", PyInt(301),
     Lit_REDIRECT_HTTP_RESPONSE_CODE_301>>,
   <<"redirect_http_response_code", "redirectHttpResponseCode", PyInt(302),
     Lit_REDIRECT_HTTP_RESPONSE_CODE_302>>,
   <<"redirect_http_response_code", "redirectHttpResponseCode", PyInt(303),
     Lit_REDIRECT_HTTP_RESPONSE_CODE_303>>,
   <<"redirect_http_response_code", "redirectHttpResponseCode", PyInt(307),
     Lit_REDIRECT_HTTP_RESPONSE_CODE_307>>}

\* C6: to_api_dict never misses a lookup; in its output each of the four
\* keys is present iff its attribute is set, a set attribute equals exactly
\* one literal of the table, and the key holds that literal's constant
C6_EnumTranslation ==
  /\ pc # "to_api_dict_raised"
  /\ pc = "serialized" =>
       /\ \A row \in C6_Table :
            /\ row[2] \in DOMAIN api_dict <=> HandlerSets(row[1])
            /\ PyEq(handler[row[1]], row[3]) => api_dict[row[2]] = row[4]
       /\ \A a \in {row[1] : row \in C6_Table} :
            HandlerSets(a) =>
              Cardinality({row \in C6_Table : row[1] = a /\ PyEq(handler[a], row[3])}) = 1

\* secure="always" serialised as SECURE_ALWAYS
C6_Witness ==
  /\ pc = "serialized"
  /\ handler.secure = Lit_always
  /\ api_dict.securityLevel = Lit_SECURE_ALWAYS

----------------------------------------------------------------------------
(* C7: the shape of the output. *)

C7_SecondaryKeys ==
  {"uploadPathRegex", "httpHeaders", "mimeType", "expiration", "applicationReadable"}

\* the four secondary fields that nothing else writes
C7_PlainSecondary ==
  {<<"http_headers", "httpHeaders">>, <<"mime_type", "mimeType">>,
   <<"expiration", "expiration">>, <<"application_readable", "applicationReadable">>}

\* C7: the output holds urlRegex equal to url and exactly one of staticFiles
\* and script: staticFiles, with a path entry, iff static_dir or static_files
\* is set, otherwise script = {scriptPath: script}. A secondary static field
\* is emitted inside staticFiles iff it is set on the rule, with its value
\* (an uploadPathRegex found without upload set is the one generated from
\* static_dir), and no secondary key is at the top level or in a script
\* rule's output
C7_OutputShape ==
  pc = "serialized" =>
    /\ "urlRegex" \in DOMAIN api_dict
    /\ api_dict.urlRegex = handler.url
    /\ DOMAIN api_dict \subseteq
         {"urlRegex", "securityLevel", "login", "authFailAction",
          "redirectHttpResponseCode", "staticFiles", "script"}
    /\ ("staticFiles" \in DOMAIN api_dict) # ("script" \in DOMAIN api_dict)
    /\ "staticFiles" \in DOMAIN api_dict
         <=> (HandlerSets("static_dir") \/ HandlerSets("static_files"))
    /\ "staticFiles" \in DOMAIN api_dict =>
         LET section == api_dict.staticFiles
         IN  /\ "path" \in DOMAIN section
             /\ DOMAIN section \subseteq {"path"} \cup C7_SecondaryKeys
             /\ \A f \in C7_PlainSecondary :
                  /\ f[2] \in DOMAIN section <=> HandlerSets(f[1])
                  /\ HandlerSets(f[1]) => section[f[2]] = handler[f[1]]
             /\ HandlerSets("upload") =>
                  /\ "uploadPathRegex" \in DOMAIN section
                  /\ section.uploadPathRegex = handler.upload
             /\ (~HandlerSets("upload") /\ "uploadPathRegex" \in DOMAIN section) =>
                  /\ HandlerSets("static_dir")
                  /\ section.uploadPathRegex
                       = PyStr(handler.static_dir.s \o <<"/", ".", "*">>)
    /\ "script" \in DOMAIN api_dict =>
         /\ DOMAIN api_dict.script = {"scriptPath"}
         /\ api_dict.script.scriptPath = handler.script

\* a static rule whose application_readable is false, emitted as false
C7_Witness ==
  /\ pc = "serialized"
  /\ handler.application_readable = PyBool(FALSE)
  /\ "staticFiles" \in DOMAIN api_dict
  /\ api_dict.staticFiles.applicationReadable = PyBool(FALSE)

----------------------------------------------------------------------------
(* C8: ConfigError is the only failure of from_yaml. *)

\* C8: from_yaml raises nothing but ConfigError, and a section with url, no
\* unknown key and a recognized field whose non-null value fails its
\* predicate (a value of the wrong type included) fails with the
\* invalid-value ConfigError
C8_OnlyConfigError ==
  /\ pc = "from_yaml_raised" => raised.type = ConfigError
  /\ (Parsed /\ "url" \in DOMAIN yaml_entry /\ UnknownKeys = {} /\ FailingKeys # {}) =>
       Rejected /\ raised.check = "invalid"

----------------------------------------------------------------------------
(* C9: http_headers is a string-to-string mapping. *)

C9_IsStringMapping(val) ==
  /\ isinstance(val, "dict")
  /\ \A item \in val.d : isinstance(item[1], "str") /\ isinstance(item[2], "str")

\* C9: a section whose http_headers is set and is not a mapping of strings
\* to strings is rejected with ConfigError; the http_headers of a returned
\* rule, and the httpHeaders emitted from it, is such a mapping
C9_HeadersAreStrings ==
  /\ (Parsed /\ Sets("http_headers")
        /\ ~C9_IsStringMapping(yaml_entry.http_headers)) => Rejected
  /\ (Returned /\ HandlerSets("http_headers")) =>
       C9_IsStringMapping(handler.http_headers)
  /\ (pc = "serialized" /\ "staticFiles" \in DOMAIN api_dict
        /\ "httpHeaders" \in DOMAIN api_dict.staticFiles) =>
       C9_IsStringMapping(api_dict.staticFiles.httpHeaders)

----------------------------------------------------------------------------
(* C10: the expiration grammar (checked under SpecExp, whose sections are  *)
(* a url, a static_dir and each expiration string).                        *)

C10_Units == {"d", "D", "h", "H", "m", "M", "s", "S"}

\* one or more digits, then at most one unit character
C10_IsTerm(term) ==
  \E k \in 1..Len(term) :
    /\ \A i \in 1..k : term[i] \in Digits
    /\ \/ k = Len(term)
       \/ k + 1 = Len(term) /\ term[Len(term)] \in C10_Units

\* the terms of cs are its maximal runs of non-whitespace characters: there
\* is at least one, and each is a term
C10_Grammar(cs) ==
  LET black == {i \in 1..Len(cs) : cs[i] \notin Whitespace}
      starts == {i \in black : i = 1 \/ (i - 1) \notin black}
      ends == {i \in black : i = Len(cs) \/ (i + 1) \notin black}
      endOf(i) == CHOOSE j \in ends : j >= i /\ \A e \in ends : e >= i => j <= e
  IN  /\ starts # {}
      /\ \A i \in starts : C10_IsTerm(SubSeq(cs, i, endOf(i)))

\* C10: a str expiration is accepted iff it is whitespace-separated terms
\* of digits with at most one unit character each (optional whitespace
\* around); "30d", "1d 2h 3m", "45", "10 20M" are accepted and "abc",
\* "30x", "", "1d2h" rejected; a rejected expiration makes from_yaml fail
\* with the invalid-expiration ConfigError
C10_ExpirationGrammar ==
  Parsed =>
    LET value == yaml_entry.expiration
    IN  /\ C10_Grammar(value.s) =>
             Returned /\ handler.expiration = value
        /\ ~C10_Grammar(value.s) =>
             Rejected /\ raised = AppEngineConfigException("invalid", "expiration", value)
        /\ value.s \in AcceptedExamples => Returned
        /\ value.s \in RejectedExamples => Rejected

\* two terms run together without whitespace are rejected
C10_Witness ==
  /\ Rejected
  /\ raised.check = "invalid"
  /\ yaml_entry.expiration = PyStr(<<"1", "d", "1", "S">>)

====
